---- MODULE Spec2Model ----
(***************************************************************************)
(* A model of the paper-trading core of ftilbury/aibot:                    *)
(*   - PaperExecutionEngine.process_signals (src/execution_engine.py),     *)
(*     one action per call, per loop iteration and for the end of data;    *)
(*   - RiskEngine.check / reset_daily (src/risk_engine.py);                *)
(*   - the trading loop main / trade_symbol (src/trade.py).                *)
(*                                                                         *)
(* Amounts (prices, slippage, equity) are integers on one scale.  The     *)
(* risk engine only uses ratios to INITIAL_CAPITAL and the simulator only  *)
(* adds price differences to it, so the scale matters to neither.          *)
(* Timestamps are bar positions 0..N-1 (df.index, strictly increasing).    *)
(***************************************************************************)
EXTENDS Integers, Sequences, FiniteSets, TLC

\* ------------------------------------------------------------ constants
INITIAL_CAPITAL == 100000
PAPER_TRADE_SLIPPAGE == 1
PAPER_TRADE_LATENCY == 1
\* MAX_DAILY_LOSS = 0.025 and MAX_DRAWDOWN = 0.10, in thousandths
MAX_DAILY_LOSS == 25
MAX_DRAWDOWN == 100
\* the denominator of the two fractions above
PerMille == 1000
\* Python's None, for the unset exit_time / exit_price of an open Trade
None == -1

\* --------------------------------------------------------------- bounds
\* longest price series
MaxN == 4
\* largest latency an engine is constructed with
MaxLatency == 1
\* process_signals calls made on one engine instance
MaxCalls == 2
\* date rollovers in one risk-engine session
MaxDay == 5
\* symbols in one batch of the trading loop (SYMBOLS has seven)
NumSymbols == 2

\* close prices a bar may have
Prices == {100, 103}
\* slippage an engine may be constructed with
Slippages == {-1, 0, PAPER_TRADE_SLIPPAGE}
Latencies == 0..MaxLatency

SeqsOf(S, n) == [1..n -> S]
\* the rising series of the specification's scenario
ScenarioCloses == <<100, 101, 102, 103>>
\* price series of 1..MaxN bars (the 'close' column of df)
PriceSeries == UNION {SeqsOf(Prices, n) : n \in 1..MaxN} \cup {ScenarioCloses}
\* signal arrays of a given length
SignalArrays(n) == SeqsOf({0, 1}, n)

VARIABLES
    \* PaperExecutionEngine fields
    slippage, latency, trades, capital, equity_curve,
    \* process_signals: parameters, locals, position in the code, outcome
    df, signals, delayed_signals, position_open, current_trade, equity, i,
    pc, err, returned,
    \* the session's generated signal array (trade.py: signals)
    generated,
    \* history: engine fields at call entry, calls made, forced close in this
    \* call, what the first completed call left
    at_call, calls, forced, first_run,
    \* RiskEngine fields, the wall-clock date, the last call and its result
    daily_start, start_equity, peak_equity, today, op, arg, result,
    \* history of the risk session: highest equity checked, whether a check
    \* returned false, whether equity fell by more than the daily limit
    \* from one check to the next
    high, halted, big_drop,
    \* trading loop: position in SYMBOLS, where main is, symbols completed,
    \* symbols whose input the simulator rejected
    sym, main_pc, completed, rejected,
    \* concurrent callers of one RiskEngine: where each is in check, the
    \* equity it passed, and whether two calls were ever in progress together
    thread_pc, thread_eq, overlapped

engineVars == <<slippage, latency, trades, capital, equity_curve>>
frameVars == <<df, signals, delayed_signals, position_open, current_trade,
               equity, i, pc, err, returned>>
histVars == <<generated, at_call, calls, forced, first_run>>
riskVars == <<daily_start, start_equity, peak_equity>>
riskHist == <<today, op, arg, result, high, halted, big_drop>>
loopVars == <<sym, main_pc, completed, rejected>>
raceVars == <<thread_pc, thread_eq, overlapped>>
vars == <<engineVars, frameVars, histVars, riskVars, riskHist, loopVars, raceVars>>

\* ---------------------------------------------------------------- Trade
NoTrade == [symbol |-> "", entry_time |-> None, entry_price |-> None,
            volume |-> 0, exit_time |-> None, exit_price |-> None]

NewTrade(symbol, entry_time, entry_price, volume) ==
    [symbol |-> symbol, entry_time |-> entry_time, entry_price |-> entry_price,
     volume |-> volume, exit_time |-> None, exit_price |-> None]

close(trade, exit_time, exit_price) ==
    [trade EXCEPT !.exit_time = exit_time, !.exit_price = exit_price]

pnl_entry_minus_exit(trade) ==
    IF trade.exit_price = None THEN 0
    ELSE (trade.entry_price - trade.exit_price) * trade.volume

pnl(trade) ==
    IF trade.exit_price = None THEN 0
    ELSE (trade.exit_price - trade.entry_price) * trade.volume

RECURSIVE SumPnl(_)
SumPnl(ts) == IF ts = <<>> THEN 0 ELSE pnl(Head(ts)) + SumPnl(Tail(ts))

\* ------------------------------------------------- PaperExecutionEngine
apply_slippage_wrong_sign(price, side) == price - side * slippage

\* _apply_slippage: side +1 = buy, -1 = sell
apply_slippage(price, side) == price + side * slippage

roll_backward(a, k) ==
    [j \in 1..Len(a) |-> a[((j - 1 + k) % Len(a)) + 1]]

\* np.roll(a, k): element j of the result is element (j - k) mod N of a
roll(a, k) ==
    [j \in 1..Len(a) |-> a[((j - 1 - k) % Len(a)) + 1]]

index_at_signal_bar(k) == k - 1

\* df['close'].iloc[k] and df.index[k], k counted from 0
close_at(k) == df[k + 1]
index_at(k) == k

Snapshot == [trades |-> trades, capital |-> capital, equity_curve |-> equity_curve]
NoRun == [trades |-> <<>>, curve |-> <<>>, made |-> FALSE]

Callable == pc \in {"idle", "done", "raised"}

reject_after_reset(sig) ==
    /\ pc' = "raised"
    /\ err' = "length_mismatch"
    /\ equity_curve' = <<>>
    /\ UNCHANGED <<slippage, latency, trades, capital>>
    /\ UNCHANGED <<delayed_signals, position_open, current_trade, equity, i,
                   returned, forced, first_run>>

\* lines 82-83: the length check raises before anything is assigned
reject(sig) ==
    /\ pc' = "raised"
    /\ err' = "length_mismatch"
    /\ UNCHANGED engineVars
    /\ UNCHANGED <<delayed_signals, position_open, current_trade, equity, i,
                   returned, forced, first_run>>

\* lines 85-88: the locals of an accepted call
enter(sig) ==
    /\ delayed_signals' = roll(sig, latency)
    /\ position_open' = FALSE
    /\ current_trade' = NoTrade
    /\ equity' = capital
    /\ i' = 0
    /\ pc' = "loop"
    /\ err' = "none"
    /\ forced' = FALSE
    /\ UNCHANGED engineVars
    /\ UNCHANGED <<returned, first_run>>

\* lines 82-88: process_signals(df, sig) is entered
process_signals(sig) ==
    /\ calls' = calls + 1
    /\ signals' = sig
    /\ at_call' = Snapshot
    /\ IF Len(sig) # Len(df) THEN reject(sig) ELSE enter(sig)
    /\ UNCHANGED <<df, generated>>
    /\ UNCHANGED <<riskVars, riskHist, raceVars>>

\* a caller holding the engine calls process_signals on it
Call(sig) ==
    /\ Callable
    /\ calls < MaxCalls
    /\ process_signals(sig)
    /\ UNCHANGED loopVars

\* lines 90-111: one iteration of the loop over bars 0..N-2
LoopBody ==
    /\ pc = "loop"
    /\ i < Len(df) - 1
    /\ LET signal == delayed_signals[i + 1]
           next_price == close_at(i + 1)
           timestamp == index_at(i + 1)
           opened == NewTrade("FX", timestamp, apply_slippage(next_price, 1), 1)
           closed == close(current_trade, timestamp, apply_slippage(next_price, -1))
       IN  IF signal = 1 /\ ~position_open
           THEN /\ current_trade' = opened
                /\ position_open' = TRUE
                /\ equity_curve' = Append(equity_curve, equity)
                /\ UNCHANGED <<trades, equity>>
           ELSE IF signal = 0 /\ position_open
           THEN /\ current_trade' = closed
                /\ trades' = Append(trades, closed)
                /\ equity' = equity + pnl(closed)
                /\ position_open' = FALSE
                /\ equity_curve' = Append(equity_curve, equity')
           ELSE /\ equity_curve' = Append(equity_curve, equity)
                /\ UNCHANGED <<trades, equity, current_trade, position_open>>
    /\ i' = i + 1
    /\ UNCHANGED <<slippage, latency, capital>>
    /\ UNCHANGED <<df, signals, delayed_signals, pc, err, returned>>
    /\ UNCHANGED histVars
    /\ UNCHANGED <<riskVars, riskHist, loopVars, raceVars>>

\* line 121: pandas refuses a frame whose data is longer than its index
frame_fits(curve) == Len(curve) <= Len(df)

must_force_close_stale == current_trade # NoTrade

must_force_close_never == FALSE

\* line 114: position_open and current_trade is not None
must_force_close == position_open /\ current_trade # NoTrade

\* lines 113-121: the forced close of a position still open, and the return
EndOfData ==
    /\ pc = "loop"
    /\ i >= Len(df) - 1
    /\ LET closing == must_force_close
           closed == close(current_trade, index_at(Len(df) - 1),
                           apply_slippage(close_at(Len(df) - 1), -1))
       IN  /\ forced' = closing
           /\ IF closing
              THEN /\ current_trade' = closed
                   /\ trades' = Append(trades, closed)
                   /\ equity' = equity + pnl(closed)
                   /\ equity_curve' = Append(equity_curve, equity')
              ELSE UNCHANGED <<current_trade, trades, equity, equity_curve>>
    /\ IF frame_fits(equity_curve')
       THEN /\ pc' = "done"
            /\ err' = "none"
            /\ returned' = equity_curve'
       ELSE /\ pc' = "raised"
            /\ err' = "frame_shape"
            /\ UNCHANGED returned
    /\ first_run' = IF first_run.made THEN first_run
                    ELSE [trades |-> trades', curve |-> equity_curve', made |-> TRUE]
    /\ UNCHANGED <<slippage, latency, capital>>
    /\ UNCHANGED <<df, signals, delayed_signals, position_open, i>>
    /\ UNCHANGED <<generated, at_call, calls>>
    /\ UNCHANGED <<riskVars, riskHist, loopVars, raceVars>>

\* ------------------------------------------------------------ RiskEngine
\* equities a caller may report, in thousandths of INITIAL_CAPITAL below it
GridOffsets == {-25, 0, 25, 26, 50, 75, 76, 100, 101}
EquityGrid == {INITIAL_CAPITAL - (o * INITIAL_CAPITAL) \div PerMille : o \in GridOffsets}

RiskState == [daily_start |-> daily_start, start_equity |-> start_equity,
              peak_equity |-> peak_equity]

\* __init__ (date.today() is the model's today)
new_risk_engine(date) ==
    [daily_start |-> date, start_equity |-> INITIAL_CAPITAL,
     peak_equity |-> INITIAL_CAPITAL]

reset_daily_keep_start(eq) ==
    [daily_start |-> today, start_equity |-> start_equity, peak_equity |-> eq]

reset_daily_stale_peak(eq) ==
    [daily_start |-> today, start_equity |-> eq, peak_equity |-> peak_equity]

\* reset_daily
reset_daily(eq) ==
    [daily_start |-> today, start_equity |-> eq, peak_equity |-> eq]

daily_limit_hit_inclusive(start, eq) ==
    (start - eq) * PerMille >= MAX_DAILY_LOSS * INITIAL_CAPITAL

\* lines 48-49: (start_equity - equity) / INITIAL_CAPITAL > MAX_DAILY_LOSS
daily_limit_hit(start, eq) ==
    (start - eq) * PerMille > MAX_DAILY_LOSS * INITIAL_CAPITAL

\* lines 55-56: (peak_equity - equity) / INITIAL_CAPITAL > MAX_DRAWDOWN
trailing_limit_hit(peak, eq) ==
    (peak - eq) * PerMille > MAX_DRAWDOWN * INITIAL_CAPITAL

raised_peak_overwrite(peak, eq) == eq

\* lines 53-54
raised_peak(peak, eq) == IF eq > peak THEN eq ELSE peak

check_resume_after_halt(eq) ==
    LET s == IF today # daily_start THEN reset_daily(eq) ELSE RiskState
    IN  IF daily_limit_hit(s.start_equity, eq)
        THEN [state |-> reset_daily(eq), result |-> FALSE]
        ELSE LET peak == raised_peak(s.peak_equity, eq)
             IN  IF trailing_limit_hit(peak, eq)
                 THEN [state |-> reset_daily(eq), result |-> FALSE]
                 ELSE [state |-> [s EXCEPT !.peak_equity = peak], result |-> TRUE]

\* check: the risk state it leaves and the value it returns
check(eq) ==
    LET s == IF today # daily_start THEN reset_daily(eq) ELSE RiskState
    IN  IF daily_limit_hit(s.start_equity, eq)
        THEN [state |-> s, result |-> FALSE]
        ELSE LET peak == raised_peak(s.peak_equity, eq)
             IN  [state |-> [s EXCEPT !.peak_equity = peak],
                  result |-> ~trailing_limit_hit(peak, eq)]

SetRisk(s) ==
    /\ daily_start' = s.daily_start
    /\ start_equity' = s.start_equity
    /\ peak_equity' = s.peak_equity

Max(a, b) == IF a >= b THEN a ELSE b

\* what the session has seen, after a call that reported equity eq
Observe(eq, name, res) ==
    /\ op' = name
    /\ arg' = eq
    /\ result' = res
    /\ high' = Max(high, eq)
    /\ halted' = (halted \/ ~res)
    /\ big_drop' = (big_drop \/ (arg - eq) * PerMille > MAX_DAILY_LOSS * INITIAL_CAPITAL)
    /\ UNCHANGED today

\* risk.check(eq) is called
Check(eq) ==
    /\ main_pc = "idle"
    /\ LET c == check(eq)
       IN  SetRisk(c.state) /\ Observe(eq, "check", c.result)
    /\ UNCHANGED <<engineVars, frameVars, histVars, loopVars, raceVars>>

\* risk.reset_daily(eq) is called by the owner of the engine
ResetDaily(eq) ==
    /\ main_pc = "idle"
    /\ SetRisk(reset_daily(eq))
    /\ Observe(eq, "reset_daily", result)
    /\ UNCHANGED <<engineVars, frameVars, histVars, loopVars, raceVars>>

\* midnight passes: date.today() returns the next date
NewDay ==
    /\ today < MaxDay
    /\ today' = today + 1
    /\ UNCHANGED <<op, arg, result, high, halted, big_drop>>
    /\ UNCHANGED <<engineVars, frameVars, histVars, riskVars, loopVars, raceVars>>

RiskIdle ==
    /\ today = 0
    /\ daily_start = new_risk_engine(today).daily_start
    /\ start_equity = new_risk_engine(today).start_equity
    /\ peak_equity = new_risk_engine(today).peak_equity
    /\ op = "init" /\ arg = INITIAL_CAPITAL /\ result = TRUE
    /\ high = INITIAL_CAPITAL /\ halted = FALSE /\ big_drop = FALSE

\* the callers that share one RiskEngine in a live trading loop
Threads == {1, 2}

\* no call of check is in progress
RaceIdle ==
    /\ thread_pc = [t \in Threads |-> "idle"]
    /\ thread_eq = [t \in Threads |-> INITIAL_CAPITAL]
    /\ overlapped = FALSE

LoopIdle ==
    /\ sym = 0 /\ main_pc = "idle" /\ completed = {} /\ rejected = {}

EngineIdle ==
    /\ trades = <<>>
    /\ capital = INITIAL_CAPITAL
    /\ equity_curve = <<>>
    /\ signals = <<>>
    /\ delayed_signals = <<>>
    /\ position_open = FALSE
    /\ current_trade = NoTrade
    /\ equity = INITIAL_CAPITAL
    /\ i = 0
    /\ pc = "idle"
    /\ err = "none"
    /\ returned = <<>>
    /\ at_call = Snapshot
    /\ calls = 0
    /\ forced = FALSE
    /\ first_run = NoRun

\* ------------------------------------------------- one engine, one session
\* PaperExecutionEngine.__init__ with any slippage and latency, and the
\* session's price series and generated signals
Init ==
    /\ slippage \in Slippages
    /\ latency \in Latencies
    /\ df \in PriceSeries
    /\ generated \in SignalArrays(Len(df))
    /\ EngineIdle
    /\ RiskIdle
    /\ LoopIdle
    /\ RaceIdle

\* the arrays a caller may pass: the generated one, or one element short or long
SignalArgs == {generated, SubSeq(generated, 1, Len(generated) - 1),
               Append(generated, 0)}

Next ==
    \/ \E sig \in SignalArgs : Call(sig)
    \/ LoopBody
    \/ EndOfData

Spec == Init /\ [][Next]_vars

\* ------------------------------------------------- one risk-engine session
\* a RiskEngine constructed today; the simulator is not used
InitRisk ==
    /\ slippage = PAPER_TRADE_SLIPPAGE
    /\ latency = PAPER_TRADE_LATENCY
    /\ df = <<>>
    /\ generated = <<>>
    /\ EngineIdle
    /\ RiskIdle
    /\ LoopIdle
    /\ RaceIdle

\* the owner only calls check
NextCheck ==
    \/ \E eq \in EquityGrid : Check(eq)
    \/ NewDay

SpecCheck == InitRisk /\ [][NextCheck]_vars

\* the owner calls check and reset_daily
NextRisk ==
    \/ \E eq \in EquityGrid : Check(eq)
    \/ \E eq \in EquityGrid : ResetDaily(eq)
    \/ NewDay

SpecRisk == InitRisk /\ [][NextRisk]_vars

\* ------------------------------------- check called without a lock
\* equities the concurrent callers report: above the initial capital, at it,
\* and more than MAX_DAILY_LOSS below it
RaceOffsets == {-25, 0, 26}
RaceEquities == {INITIAL_CAPITAL - (o * INITIAL_CAPITAL) \div PerMille : o \in RaceOffsets}

InCheck(t) == thread_pc[t] # "idle"

Goto(t, label) == thread_pc' = [thread_pc EXCEPT ![t] = label]

RaceFrame ==
    /\ UNCHANGED <<engineVars, frameVars, histVars, loopVars>>
    /\ UNCHANGED <<today, high, halted, big_drop>>

\* line 35: thread t calls check(eq)
Enter(t, eq) ==
    /\ main_pc = "idle"
    /\ thread_pc[t] = "idle"
    /\ Goto(t, "l44")
    /\ thread_eq' = [thread_eq EXCEPT ![t] = eq]
    /\ overlapped' = (overlapped \/ \E u \in Threads \ {t} : InCheck(u))
    /\ UNCHANGED <<riskVars, op, arg, result>>
    /\ RaceFrame

\* line 44: date.today() != self.daily_start
DateTest(t) ==
    /\ thread_pc[t] = "l44"
    /\ Goto(t, IF today # daily_start THEN "l31" ELSE "l48")
    /\ UNCHANGED <<riskVars, op, arg, result, thread_eq, overlapped>>
    /\ RaceFrame

\* line 31: self.daily_start = date.today()
StoreDate(t) ==
    /\ thread_pc[t] = "l31"
    /\ daily_start' = reset_daily(thread_eq[t]).daily_start
    /\ Goto(t, "l32")
    /\ UNCHANGED <<start_equity, peak_equity, op, arg, result, thread_eq, overlapped>>
    /\ RaceFrame

\* line 32: self.start_equity = equity
StoreStart(t) ==
    /\ thread_pc[t] = "l32"
    /\ start_equity' = reset_daily(thread_eq[t]).start_equity
    /\ Goto(t, "l33")
    /\ UNCHANGED <<daily_start, peak_equity, op, arg, result, thread_eq, overlapped>>
    /\ RaceFrame

\* line 33: self.peak_equity = equity
StorePeak(t) ==
    /\ thread_pc[t] = "l33"
    /\ peak_equity' = reset_daily(thread_eq[t]).peak_equity
    /\ Goto(t, "l48")
    /\ UNCHANGED <<daily_start, start_equity, op, arg, result, thread_eq, overlapped>>
    /\ RaceFrame

\* the call of thread t returns res
Returns(t, res) ==
    /\ Goto(t, "idle")
    /\ op' = "check"
    /\ arg' = thread_eq[t]
    /\ result' = res

\* lines 48-50: the daily rule, on the start_equity read now
DailyTest(t) ==
    /\ thread_pc[t] = "l48"
    /\ IF daily_limit_hit(start_equity, thread_eq[t])
       THEN Returns(t, FALSE)
       ELSE Goto(t, "l53") /\ UNCHANGED <<op, arg, result>>
    /\ UNCHANGED <<riskVars, thread_eq, overlapped>>
    /\ RaceFrame

\* line 53: equity > self.peak_equity, on the peak_equity read now
PeakTest(t) ==
    /\ thread_pc[t] = "l53"
    /\ Goto(t, IF raised_peak(peak_equity, thread_eq[t]) # peak_equity
                THEN "l54" ELSE "l55")
    /\ UNCHANGED <<riskVars, op, arg, result, thread_eq, overlapped>>
    /\ RaceFrame

\* line 54: self.peak_equity = equity
RaisePeak(t) ==
    /\ thread_pc[t] = "l54"
    /\ peak_equity' = thread_eq[t]
    /\ Goto(t, "l55")
    /\ UNCHANGED <<daily_start, start_equity, op, arg, result, thread_eq, overlapped>>
    /\ RaceFrame

\* lines 55-59: the trailing rule, on the peak_equity read now
TrailingTest(t) ==
    /\ thread_pc[t] = "l55"
    /\ Returns(t, ~trailing_limit_hit(peak_equity, thread_eq[t]))
    /\ UNCHANGED <<riskVars, thread_eq, overlapped>>
    /\ RaceFrame

\* two callers of check on one RiskEngine, their statements interleaved in
\* any order, while the date moves on
NextRace ==
    \/ \E t \in Threads, eq \in RaceEquities : Enter(t, eq)
    \/ \E t \in Threads : DateTest(t)
    \/ \E t \in Threads : StoreDate(t)
    \/ \E t \in Threads : StoreStart(t)
    \/ \E t \in Threads : StorePeak(t)
    \/ \E t \in Threads : DailyTest(t)
    \/ \E t \in Threads : PeakTest(t)
    \/ \E t \in Threads : RaisePeak(t)
    \/ \E t \in Threads : TrailingTest(t)
    \/ NewDay

SpecRace == InitRisk /\ [][NextRace]_vars

\* ------------------------------------------------------ the trading loop
\* model.predict is a collaborator: its array may be one short or one long
Predictions(n) == UNION {SignalArrays(m) : m \in {k \in {n - 1, n, n + 1} : k >= 0}}

\* no engine: the values the variables have before one is constructed and
\* after trade_symbol has returned
Dropped ==
    /\ slippage' = PAPER_TRADE_SLIPPAGE
    /\ latency' = PAPER_TRADE_LATENCY
    /\ trades' = <<>>
    /\ capital' = INITIAL_CAPITAL
    /\ equity_curve' = <<>>
    /\ signals' = <<>>
    /\ delayed_signals' = <<>>
    /\ position_open' = FALSE
    /\ current_trade' = NoTrade
    /\ equity' = INITIAL_CAPITAL
    /\ i' = 0
    /\ pc' = "idle"
    /\ err' = "none"
    /\ returned' = <<>>
    /\ at_call' = [trades |-> <<>>, capital |-> INITIAL_CAPITAL, equity_curve |-> <<>>]
    /\ calls' = 0
    /\ forced' = FALSE
    /\ first_run' = NoRun
    /\ SetRisk(new_risk_engine(today))
    /\ op' = "init" /\ arg' = INITIAL_CAPITAL /\ result' = TRUE
    /\ high' = INITIAL_CAPITAL /\ halted' = FALSE /\ big_drop' = FALSE
    /\ UNCHANGED raceVars

\* main line 88 and trade_symbol lines 48-66: the next symbol's data, signals,
\* and a new PaperExecutionEngine() and RiskEngine()
NextSymbol ==
    /\ main_pc = "for"
    /\ sym < NumSymbols
    /\ sym' = sym + 1
    /\ main_pc' = "call"
    /\ df' \in PriceSeries
    /\ generated' \in Predictions(Len(df'))
    /\ Dropped
    /\ UNCHANGED <<today, completed, rejected>>

\* trade_symbol line 68: exec_engine.process_signals(features_df, signals)
RunSymbol ==
    /\ main_pc = "call"
    /\ process_signals(generated)
    /\ main_pc' = "running"
    /\ UNCHANGED <<sym, completed, rejected>>

\* trade_symbol lines 70-82: risk.check(exec_engine.capital), the alert, the
\* logs
AfterRun ==
    /\ main_pc = "running"
    /\ pc = "done"
    /\ LET c == check(capital)
       IN  SetRisk(c.state) /\ Observe(capital, "check", c.result)
    /\ completed' = completed \cup {sym}
    /\ main_pc' = "return"
    /\ UNCHANGED <<sym, rejected>>
    /\ UNCHANGED <<engineVars, frameVars, histVars, raceVars>>

\* trade_symbol returns to the loop head; its engines are dropped
Return ==
    /\ main_pc = "return"
    /\ main_pc' = "for"
    /\ df' = <<>>
    /\ generated' = <<>>
    /\ Dropped
    /\ UNCHANGED <<today, sym, completed, rejected>>

\* the ValueError of process_signals is caught neither by trade_symbol nor
\* by main: it ends main
Propagate ==
    /\ main_pc = "running"
    /\ pc = "raised"
    /\ rejected' = rejected \cup {sym}
    /\ main_pc' = "aborted"
    /\ UNCHANGED <<sym, completed>>
    /\ UNCHANGED <<engineVars, frameVars, histVars, riskVars, riskHist, raceVars>>

\* main line 88: SYMBOLS is exhausted
LoopEnd ==
    /\ main_pc = "for"
    /\ sym = NumSymbols
    /\ main_pc' = "finished"
    /\ UNCHANGED <<sym, completed, rejected>>
    /\ UNCHANGED <<engineVars, frameVars, histVars, riskVars, riskHist, raceVars>>

InitBatch ==
    /\ slippage = PAPER_TRADE_SLIPPAGE
    /\ latency = PAPER_TRADE_LATENCY
    /\ df = <<>>
    /\ generated = <<>>
    /\ EngineIdle
    /\ RiskIdle
    /\ sym = 0 /\ main_pc = "for" /\ completed = {} /\ rejected = {}
    /\ RaceIdle

NextBatch ==
    \/ NextSymbol
    \/ RunSymbol
    \/ LoopBody
    \/ EndOfData
    \/ AfterRun
    \/ Return
    \/ Propagate
    \/ LoopEnd
    \/ NewDay

SpecBatch == InitBatch /\ [][NextBatch]_vars

\* ------------------------------------------------------------- properties
\* the trades the current call has appended to the ledger
NewTrades == SubSeq(trades, Len(at_call.trades) + 1, Len(trades))
\* a call with matching lengths has ended (returned, or failed building the frame)
ValidCallEnded ==
    calls > 0 /\ Len(signals) = Len(df) /\ pc \in {"done", "raised"}

\* C1: a call whose signal array and price series differ in length ends in the
\* input error, with the ledger, the capital and the equity curve of the
\* engine exactly as they were when the call was made.
C1_MismatchRejectedUnchanged ==
    (calls > 0 /\ Len(signals) # Len(df)) =>
        /\ pc = "raised"
        /\ err = "length_mismatch"
        /\ Snapshot = at_call

\* a mismatched call made on an engine that already holds trades and a curve
C1_Witness ==
    /\ err = "length_mismatch"
    /\ trades # <<>>
    /\ equity_curve # <<>>

\* C2: every completed call with the session's inputs returns the equity
\* curve, and leaves the ledger, that the first such call returned and left.
C2_Idempotent ==
    (first_run.made /\ ValidCallEnded) =>
        /\ pc = "done"
        /\ returned = first_run.curve
        /\ trades = first_run.trades

\* C3: after a call on N >= 2 bars the engine's equity curve has N-1 points,
\* or N when the call ended with a forced close; never none, never more than N.
C3_CurveLength ==
    (ValidCallEnded /\ Len(df) >= 2) =>
        /\ Len(equity_curve) = Len(df) - 1 + (IF forced THEN 1 ELSE 0)
        /\ Len(equity_curve) >= 1
        /\ Len(equity_curve) <= Len(df)

\* C4: when a call returns, the engine's capital is the capital at entry plus
\* the PnL of the trades closed in the call, which is the last equity value.
C4_CapitalIsRealizedEquity ==
    (pc = "done") =>
        /\ capital = at_call.capital + SumPnl(NewTrades)
        /\ capital = equity

\* C5: a check call returns false exactly when, after the rollover reset, the
\* daily drawdown exceeds MAX_DAILY_LOSS, or it does not and the trailing
\* drawdown from the raised peak exceeds MAX_DRAWDOWN (both strictly); the peak
\* is raised only when the daily rule did not halt.  A same-day call with
\* equity INITIAL_CAPITAL * (1 - MAX_DAILY_LOSS - 0.001) and start_equity
\* INITIAL_CAPITAL returns false.
C5_CheckDecision ==
    [][(op' = "check" /\ today' = today) =>
        LET eq == arg'
            rolled == today # daily_start
            start == IF rolled THEN eq ELSE start_equity
            peak == IF rolled THEN eq ELSE peak_equity
            daily == (start - eq) * PerMille > MAX_DAILY_LOSS * INITIAL_CAPITAL
            top == IF peak > eq THEN peak ELSE eq
            trailing == (top - eq) * PerMille > MAX_DRAWDOWN * INITIAL_CAPITAL
            scenario == (INITIAL_CAPITAL * (PerMille - MAX_DAILY_LOSS - 1)) \div PerMille
        IN  /\ start_equity' = start
            /\ daily => (result' = FALSE /\ peak_equity' = peak)
            /\ ~daily => (peak_equity' = top /\ result' = ~trailing)
            /\ (~rolled /\ start_equity = INITIAL_CAPITAL /\ eq = scenario)
                   => result' = FALSE
       ]_vars

\* the scenario of C5 has been checked and has halted
C5_Witness ==
    /\ op = "check"
    /\ result = FALSE
    /\ daily_start = today
    /\ start_equity = INITIAL_CAPITAL
    /\ arg = (INITIAL_CAPITAL * (PerMille - MAX_DAILY_LOSS - 1)) \div PerMille

\* C6: a check call made on the date of daily_start neither lowers peak_equity
\* nor changes start_equity or daily_start; only a call on another date can.
C6_PeakMonotoneWithinDay ==
    [][(op' = "check" /\ today' = today /\ today = daily_start) =>
        /\ peak_equity' >= peak_equity
        /\ start_equity' = start_equity
        /\ daily_start' = daily_start
       ]_vars

\* a rollover has lowered the peak below the session's high and a same-day
\* check has raised it again
C6_Witness ==
    /\ op = "check"
    /\ today > 0
    /\ daily_start = today
    /\ peak_equity > start_equity
    /\ peak_equity < high

\* C7: peak_equity >= start_equity in every state reached by check and
\* reset_daily calls.
C7_PeakAtLeastStart == peak_equity >= start_equity

\* after a reset_daily to another equity, a check has raised the peak
C7_Witness ==
    /\ op = "check"
    /\ start_equity # INITIAL_CAPITAL
    /\ daily_start = 0
    /\ today = 0
    /\ peak_equity > start_equity

\* C8: when equity never falls by more than the daily limit from one check to
\* the next, and a check sees equity below the session's highest equity by
\* more than MAX_DRAWDOWN of the initial capital, some check has returned false.
C8_SlowBleedHalts ==
    (/\ op = "check"
     /\ ~big_drop
     /\ (high - arg) * PerMille > MAX_DRAWDOWN * INITIAL_CAPITAL) => halted

\* C9: when main has ended, every symbol but those whose input the simulator
\* rejected has been processed to completion.
C9_BatchIsolation ==
    (main_pc \in {"finished", "aborted"}) =>
        completed = (1..NumSymbols) \ rejected

\* the raw close of the bar with timestamp t
RawClose(t) == close_at(t)

\* C10: with slippage >= 0 every trade is entered at or above the raw close of
\* its entry bar and closed at or below the raw close of its exit bar, and its
\* PnL is (raw exit close - raw entry close - 2 * slippage) * volume.
C10_SlippageWorsens ==
    (slippage >= 0) =>
        /\ \A k \in 1..Len(trades) :
              LET t == trades[k]
              IN  /\ t.entry_price >= RawClose(t.entry_time)
                  /\ t.exit_price <= RawClose(t.exit_time)
                  /\ pnl(t) = (RawClose(t.exit_time) - RawClose(t.entry_time)
                                 - 2 * slippage) * t.volume
        /\ position_open => current_trade.entry_price >= RawClose(current_trade.entry_time)

\* a call under positive slippage has closed a trade in the loop and has
\* force-closed another
C10_Witness ==
    /\ slippage > 0
    /\ pc = "done"
    /\ forced
    /\ Len(NewTrades) >= 2
    /\ \A k \in 1..Len(trades) : trades[k].entry_price > RawClose(trades[k].entry_time)

\* a Trade that has been closed / that is still open (NoTrade is neither)
IsClosed(t) == t.exit_time # None /\ t.exit_price # None
IsOpen(t) == t # NoTrade /\ t.exit_time = None /\ t.exit_price = None

\* C11: every Trade of the ledger, and the current one, has exit_time and
\* exit_price both unset or both set, and every Trade of the ledger is closed;
\* no step changes a Trade of the ledger, and a closed current Trade is never
\* closed again: it stays as it is or gives way to a new, unclosed one.
C11_TradeClosedOnce ==
    /\ [](\A k \in 1..Len(trades) : IsClosed(trades[k]))
    /\ [](current_trade = NoTrade \/ IsOpen(current_trade) \/ IsClosed(current_trade))
    /\ [][/\ Len(trades') >= Len(trades)
          /\ \A k \in 1..Len(trades) : trades'[k] = trades[k]
          /\ IsClosed(current_trade) =>
                (current_trade' = current_trade \/ ~IsClosed(current_trade'))
         ]_vars

\* a second call holds an open Trade while the ledger keeps the closed
\* Trades of the first call
C11_Witness ==
    /\ calls = 2
    /\ pc = "loop"
    /\ IsOpen(current_trade)
    /\ Len(trades) >= 2
    /\ trades = at_call.trades

\* the signal-to-fill state machine of the specification, after bars 0..n-1:
\* FLAT + 1 opens at close[b+1] + slippage, LONG + 0 closes at
\* close[b+1] - slippage, both at timestamp b+1; FLAT + 0 and LONG + 1 hold
RECURSIVE RefAfter(_, _, _, _, _)
RefAfter(closes, sig, lat, slip, n) ==
    IF n = 0
    THEN [ledger |-> <<>>, long |-> FALSE, entry_time |-> None,
          entry_price |-> None, realized |-> 0]
    ELSE LET prev == RefAfter(closes, sig, lat, slip, n - 1)
             b == n - 1
             delayed == sig[((b - lat) % Len(sig)) + 1]
         IN  IF ~prev.long /\ delayed = 1
             THEN [prev EXCEPT !.long = TRUE, !.entry_time = b + 1,
                               !.entry_price = closes[b + 2] + slip]
             ELSE IF prev.long /\ delayed = 0
             THEN [ledger |-> Append(prev.ledger,
                                     [symbol |-> "FX", volume |-> 1,
                                      entry_time |-> prev.entry_time,
                                      entry_price |-> prev.entry_price,
                                      exit_time |-> b + 1,
                                      exit_price |-> closes[b + 2] - slip]),
                   long |-> FALSE, entry_time |-> None, entry_price |-> None,
                   realized |-> prev.realized
                                + (closes[b + 2] - slip - prev.entry_price) * 1]
             ELSE prev

\* the reference ledger of a whole run: the loop over bars 0..N-2, then the
\* close of a position still LONG at the last close
RefLedger(closes, sig, lat, slip) ==
    LET end == RefAfter(closes, sig, lat, slip, Len(closes) - 1)
    IN  IF end.long
        THEN Append(end.ledger,
                    [symbol |-> "FX", volume |-> 1,
                     entry_time |-> end.entry_time,
                     entry_price |-> end.entry_price,
                     exit_time |-> Len(closes) - 1,
                     exit_price |-> closes[Len(closes)] - slip])
        ELSE end.ledger

ScenarioSignals == <<0, 1, 1, 0>>
InScenario ==
    /\ df = ScenarioCloses /\ signals = ScenarioSignals
    /\ latency = 1 /\ slippage = 0

\* C12: after i iterations of an accepted call the trades appended, the
\* position, the open Trade's entry and the equity are those of the reference
\* state machine after bars 0..i-1, and when the call has ended the appended
\* trades are the reference ledger; in the scenario (signals [0,1,1,0], closes
\* [100,101,102,103], latency 1, slippage 0) that is one trade, entered at 103
\* and closed at 103 at the last timestamp, with PnL 0.
C12_MatchesReference ==
    /\ (pc = "loop") =>
          LET ref == RefAfter(df, signals, latency, slippage, i)
          IN  /\ NewTrades = ref.ledger
              /\ position_open = ref.long
              /\ equity = at_call.capital + ref.realized
              /\ ref.long => /\ current_trade.entry_time = ref.entry_time
                              /\ current_trade.entry_price = ref.entry_price
                              /\ current_trade.volume = 1
                              /\ IsOpen(current_trade)
    /\ ValidCallEnded => NewTrades = RefLedger(df, signals, latency, slippage)
    /\ (ValidCallEnded /\ InScenario) =>
          /\ NewTrades = <<[symbol |-> "FX", volume |-> 1,
                            entry_time |-> 3, entry_price |-> 103,
                            exit_time |-> 3, exit_price |-> 103]>>
          /\ equity = at_call.capital

\* the scenario has been run on a new engine
C12_Witness ==
    /\ InScenario
    /\ calls = 1
    /\ pc = "done"
    /\ forced
    /\ Len(trades) = 1

\* the array a with the 0/1 value at position k (from 1) flipped
Flip(a, k) == [a EXCEPT ![k] = 1 - a[k]]
\* the position (from 1) of the input signal that lands on bar N-1
IgnoredInput == ((Len(df) - 1 - latency) % Len(df)) + 1
\* an accepted call is in progress or has ended
Accepted == calls > 0 /\ Len(signals) = Len(df) /\ pc \in {"loop", "done", "raised"}

\* C13: in an accepted call the signal for bar b is the input signal at index
\* (b - latency) mod N; for latency < N the last `latency` inputs are the
\* signals of bars 0..latency-1, so with latency 1 a 1 in the last input
\* position opens the run's first trade at bar 0 (timestamp 1); the input
\* that lands on bar N-1 is never acted upon: the trades and the equity are
\* those of the reference run with that input flipped.
C13_LatencyAlignment ==
    Accepted =>
        LET N == Len(df)
            first == IF NewTrades # <<>> THEN NewTrades[1] ELSE current_trade
            flipped == Flip(signals, IgnoredInput)
        IN  /\ \A b \in 0..(N - 1) :
                  delayed_signals[b + 1] = signals[((b - latency) % N) + 1]
            /\ latency < N =>
                  \A b \in 0..(latency - 1) :
                      delayed_signals[b + 1] = signals[N - latency + b + 1]
            /\ (latency = 1 /\ N >= 2 /\ signals[N] = 1 /\ (i >= 1 \/ pc # "loop")) =>
                  first.entry_time = 1 /\ first.entry_price = df[2] + slippage
            /\ (pc = "loop") =>
                  /\ NewTrades = RefAfter(df, flipped, latency, slippage, i).ledger
                  /\ position_open = RefAfter(df, flipped, latency, slippage, i).long
                  /\ equity = at_call.capital
                              + RefAfter(df, flipped, latency, slippage, i).realized
            /\ (pc # "loop") =>
                  NewTrades = RefLedger(df, flipped, latency, slippage)

\* latency 1, inputs [0,1,1]: the last 1 has opened a trade at bar 0, the 0
\* has closed it at bar 1, and the middle 1 was never acted upon
C13_Witness ==
    /\ latency = 1
    /\ signals = <<0, 1, 1>>
    /\ pc = "done"
    /\ ~forced
    /\ Len(NewTrades) = 1
    /\ NewTrades[1].entry_time = 1
    /\ NewTrades[1].exit_time = 2

\* the equity-curve point (from 1) at which ledger entry j of a first call
\* was realized: iteration exit_time - 1 appends point exit_time; the forced
\* close appends point N
PointOf(j) ==
    IF forced /\ j = Len(trades) THEN Len(df) ELSE trades[j].exit_time

\* the PnL of the ledger entries j..Len(trades) realized at or before point k
RECURSIVE RealizedBy(_, _)
RealizedBy(k, j) ==
    IF j > Len(trades) THEN 0
    ELSE (IF PointOf(j) <= k
          THEN (trades[j].exit_price - trades[j].entry_price) * trades[j].volume
          ELSE 0) + RealizedBy(k, j + 1)

\* C14: in the first call on an engine every equity-curve point is the initial
\* capital plus the PnL of the trades closed up to that point, the running
\* equity is the initial capital plus the PnL of all closed trades, and an
\* iteration that closes no trade leaves the equity as it was and appends it.
C14_RealizedOnlyEquity ==
    /\ []((calls = 1 /\ Accepted) =>
            /\ \A k \in 1..Len(equity_curve) :
                  equity_curve[k] = INITIAL_CAPITAL + RealizedBy(k, 1)
            /\ equity = INITIAL_CAPITAL + RealizedBy(Len(df), 1)
            /\ equity_curve # <<>> => equity_curve[Len(equity_curve)] = equity)
    /\ [][(pc = "loop" /\ i' = i + 1 /\ trades' = trades) =>
            /\ equity' = equity
            /\ equity_curve' = Append(equity_curve, equity)
         ]_vars

\* a first call on four bars with moving prices: flat equity at the first
\* point, a loop close and a forced close, and a realized gain or loss
C14_Witness ==
    /\ calls = 1
    /\ pc = "done"
    /\ forced
    /\ Len(df) = 4
    /\ df[2] # df[3]
    /\ Len(trades) = 2
    /\ equity_curve[1] = INITIAL_CAPITAL
    /\ equity_curve[2] # INITIAL_CAPITAL
    /\ equity # equity_curve[2]

\* the Trade a forced close makes of the open one: line 115
ForcedClosed(t) ==
    [t EXCEPT !.exit_time = Len(df) - 1,
              !.exit_price = df[Len(df)] - slippage]

\* C15: when the loop ends with a position open, the trade is closed at the
\* final bar's close minus slippage with the final timestamp, its PnL is added
\* to equity, and the trade and one more curve point are appended; an open
\* Trade only ever leaves current_trade by being closed and appended; so when
\* the call returns no Trade is open and the last one made is in the ledger.
C15_ForcedClose ==
    /\ [](pc = "done" =>
            /\ ~IsOpen(current_trade)
            /\ \A j \in 1..Len(trades) : IsClosed(trades[j])
            /\ current_trade # NoTrade =>
                  /\ NewTrades # <<>>
                  /\ trades[Len(trades)] = current_trade)
    /\ [][(pc = "loop" /\ pc' # "loop" /\ position_open) =>
            /\ trades' = Append(trades, ForcedClosed(current_trade))
            /\ equity' = equity + (ForcedClosed(current_trade).exit_price
                                    - current_trade.entry_price) * current_trade.volume
            /\ equity_curve' = Append(equity_curve, equity')
         ]_vars
    /\ [][(IsOpen(current_trade) /\ current_trade' # current_trade) =>
            /\ IsClosed(current_trade')
            /\ current_trade'.entry_time = current_trade.entry_time
            /\ current_trade'.entry_price = current_trade.entry_price
            /\ trades' = Append(trades, current_trade')
         ]_vars

\* a returned call whose last trade was force-closed on the final bar with
\* slippage charged
C15_Witness ==
    /\ pc = "done"
    /\ forced
    /\ slippage = PAPER_TRADE_SLIPPAGE
    /\ returned = equity_curve
    /\ Len(NewTrades) = 2
    /\ trades[Len(trades)].exit_time = Len(df) - 1
    /\ trades[Len(trades)].exit_price = df[Len(df)] - PAPER_TRADE_SLIPPAGE
    /\ equity_curve[Len(equity_curve)] # equity_curve[Len(equity_curve) - 1]

\* C16: a check call that returns false, by the daily rule or by the trailing
\* rule, leaves daily_start, start_equity and peak_equity as they were.
C16_HaltLeavesState ==
    [][(op' = "check" /\ today' = today /\ result' = FALSE) =>
         /\ daily_start' = daily_start
         /\ start_equity' = start_equity
         /\ peak_equity' = peak_equity
      ]_vars

\* a trailing halt that the daily rule alone would have let pass: the peak
\* stands above the day's start and is still there after the halt
C16_Witness ==
    /\ op = "check"
    /\ result = FALSE
    /\ daily_start = today
    /\ peak_equity > start_equity
    /\ (start_equity - arg) * PerMille <= MAX_DAILY_LOSS * INITIAL_CAPITAL
    /\ (peak_equity - arg) * PerMille > MAX_DRAWDOWN * INITIAL_CAPITAL

\* C17: the first check on a date other than daily_start sets start_equity
\* and peak_equity to the reported equity, moves daily_start to today and
\* returns true, for every equity and whatever earlier calls returned.
C17_RolloverClearsHalt ==
    [][(op' = "check" /\ today' = today /\ today # daily_start) =>
         /\ result' = TRUE
         /\ start_equity' = arg'
         /\ peak_equity' = arg'
         /\ daily_start' = today
      ]_vars

\* a session that was halted earlier passes a check on a later day with
\* equity more than both limits below the initial capital and the old high
C17_Witness ==
    /\ halted
    /\ op = "check"
    /\ result = TRUE
    /\ today > 0
    /\ daily_start = today
    /\ start_equity = arg
    /\ peak_equity = arg
    /\ (INITIAL_CAPITAL - arg) * PerMille > MAX_DRAWDOWN * INITIAL_CAPITAL
    /\ (high - arg) * PerMille > MAX_DRAWDOWN * INITIAL_CAPITAL

\* C18: only current_trade can be an open Trade and the flag position_open
\* says when it is; the trades one call appends are ordered, each entered
\* strictly after the one before it was exited; every one has
\* entry_time <= exit_time, with equality only for a last trade entered on the
\* final bar and closed by the forced close.
C18_SinglePosition ==
    /\ \A j \in 1..Len(trades) : IsClosed(trades[j])
    /\ pc = "loop" => (position_open <=> IsOpen(current_trade))
    /\ \A j \in 1..Len(NewTrades) :
          /\ NewTrades[j].entry_time <= NewTrades[j].exit_time
          /\ NewTrades[j].entry_time = NewTrades[j].exit_time =>
                /\ forced
                /\ j = Len(NewTrades)
                /\ NewTrades[j].entry_time = Len(df) - 1
          /\ j > 1 => NewTrades[j].entry_time > NewTrades[j - 1].exit_time
    /\ (IsOpen(current_trade) /\ NewTrades # <<>>) =>
          current_trade.entry_time > NewTrades[Len(NewTrades)].exit_time

\* a call that closed one trade in the loop, entered another on the final bar
\* and force-closed it there
C18_Witness ==
    /\ pc = "done"
    /\ forced
    /\ Len(NewTrades) = 2
    /\ NewTrades[1].exit_time > NewTrades[1].entry_time
    /\ NewTrades[2].entry_time > NewTrades[1].exit_time
    /\ NewTrades[2].entry_time = Len(df) - 1
    /\ NewTrades[2].exit_time = Len(df) - 1

\* C19: with the statements of two check calls interleaved, a state with
\* peak_equity < start_equity is reachable outside reset_daily; apart from
\* the moment between the two stores of reset_daily (lines 32 and 33), it is
\* reached only after the date has moved on and two calls have been in
\* progress at the same time, so calls made one after the other never leave
\* it behind.
C19_SerialKeepsPeakAboveStart ==
    (peak_equity < start_equity /\ \A t \in Threads : thread_pc[t] # "l33")
        => (overlapped /\ today > 0)

\* both calls have returned and left the peak below the day's start
C19_Witness ==
    /\ \A t \in Threads : thread_pc[t] = "idle"
    /\ overlapped
    /\ daily_start = today
    /\ thread_eq[1] # thread_eq[2]
    /\ peak_equity < start_equity

====
